---- MODULE Spec2Model ----
(***************************************************************************)
(* Model of Scraping_App/TEA_Scraper.GUI.py: the download orchestrator     *)
(* tea_scraper and its helpers wait_for_downloads, file_renamer and        *)
(* convert_dat_to_csv.                                                     *)
(*                                                                         *)
(* File names are the strings the code builds with its f-strings; a        *)
(* directory is the set of the names in it.  Time is the watcher's own     *)
(* clock: time.sleep(5) advances it by 5, everything else takes no time.   *)
(***************************************************************************)
EXTENDS Integers, Sequences, FiniteSets, TLC

(* ------------------------------------------------------------------ *)
(* Bounds of the model                                                 *)
(* ------------------------------------------------------------------ *)
MaxRuns == 2
MaxTimeout == 12

(* ------------------------------------------------------------------ *)
(* Program constants                                                   *)
(* ------------------------------------------------------------------ *)
EraCutoff == 2021
DefaultTimeout == 200
PollInterval == 5

valid_levels == {"C", "D", "R", "S"}

file_prefix(level) ==
    CASE level = "C" -> "CAMP"
      [] level = "D" -> "DIST"
      [] level = "R" -> "REGN"
      [] level = "S" -> "STATE"

(* The years of the request: the last legacy year and the first csv year. *)
Years == <<2020, 2021>>
YearSet == {Years[i] : i \in 1..Len(Years)}

(* The variable lists a request is drawn from. *)
VarLists == {<<"GRAD">>, <<"REF", "GRAD">>}

Range(s) == {s[i] : i \in 1..Len(s)}

(* ------------------------------------------------------------------ *)
(* Strings                                                             *)
(* ------------------------------------------------------------------ *)
EndsWith(s, suf) ==
    Len(s) >= Len(suf) /\ SubSeq(s, Len(s) - Len(suf) + 1, Len(s)) = suf

RECURSIVE Replace(_, _, _)
Replace(s, old, new) ==
    IF Len(s) < Len(old) THEN s
    ELSE IF SubSeq(s, 1, Len(old)) = old
         THEN new \o Replace(SubSeq(s, Len(old) + 1, Len(s)), old, new)
         ELSE SubSeq(s, 1, 1) \o Replace(SubSeq(s, 2, Len(s)), old, new)

(* ------------------------------------------------------------------ *)
(* wait_for_downloads: the expected names and the poll                 *)
(* ------------------------------------------------------------------ *)
EraExt(year) == IF year < EraCutoff THEN ".dat" ELSE ".csv"

(* Mutant: the cutoff year itself still takes the legacy extension. *)
ExpectedFile_LateCutoff(var, year) ==
    IF year <= EraCutoff
    THEN (IF var # "REF" THEN "DIST" \o var \o ".dat" ELSE "DREF.dat")
    ELSE (IF var # "REF" THEN "DIST" \o var \o ".csv" ELSE "DREF.csv")

ExpectedFile(var, year) ==
    IF year < EraCutoff
    THEN (IF var # "REF" THEN "DIST" \o var \o ".dat" ELSE "DREF.dat")
    ELSE (IF var # "REF" THEN "DIST" \o var \o ".csv" ELSE "DREF.csv")

ExpectedFiles(variables, year) == {ExpectedFile(v, year) : v \in variables}

(* Mutant: any() where the code has all(). *)
AllDownloaded_Any(expected_files, downloaded_files) ==
    \E file \in expected_files :
        file \in downloaded_files /\ ~EndsWith(file, ".crdownload")

AllDownloaded(expected_files, downloaded_files) ==
    \A file \in expected_files :
        file \in downloaded_files /\ ~EndsWith(file, ".crdownload")

LoopCond(elapsed, timeout) == elapsed < timeout

(* ------------------------------------------------------------------ *)
(* file_renamer                                                        *)
(* ------------------------------------------------------------------ *)
OldPatterns(prefix, var, level, ext) ==
    <<prefix \o var \o ext, level \o var \o ext>>

(* Mutant: the REF case is forgotten. *)
NewName_AlwaysPrefix(year, prefix, var, level, ext) ==
    prefix \o var \o "_" \o ToString(year) \o ext

NewName(year, prefix, var, level, ext) ==
    IF var = "REF"
    THEN level \o var \o "_" \o ToString(year) \o ext
    ELSE prefix \o var \o "_" \o ToString(year) \o ext

(* os.rename on a directory given as a set of names. *)
OsRename(dir, old, new) == (dir \ {old}) \cup {new}

(* The inner loop for one extension: the first pattern that exists is     *)
(* renamed and the inner loop is left.  st is [dir, ops]: the directory   *)
(* and the os.rename calls made so far.                                   *)
RenameExt(st, year, prefix, var, level, ext) ==
    LET pats == OldPatterns(prefix, var, level, ext)
        hits == {i \in 1..Len(pats) : pats[i] \in st.dir}
    IN  IF hits = {} THEN st
        ELSE LET i == CHOOSE k \in hits : \A j \in hits : k <= j
                 new == NewName(year, prefix, var, level, ext)
             IN  [dir |-> OsRename(st.dir, pats[i], new),
                  ops |-> Append(st.ops, <<pats[i], new>>)]

(* The outer loop: the break of the inner loop does not leave it. *)
file_renamer(dir, year, prefix, var, level) ==
    RenameExt(RenameExt([dir |-> dir, ops |-> <<>>],
                        year, prefix, var, level, ".csv"),
              year, prefix, var, level, ".dat")

(* ------------------------------------------------------------------ *)
(* convert_dat_to_csv                                                  *)
(* ------------------------------------------------------------------ *)
DatFiles(dir) == {f \in dir : EndsWith(f, ".dat")}

CsvPath(file_name) == Replace(file_name, ".dat", ".csv")

(* failing: the .dat files pandas cannot read; each is reported and skipped. *)
convert_dat_to_csv(dir, failing) ==
    dir \cup {CsvPath(f) : f \in DatFiles(dir) \ failing}

(* ------------------------------------------------------------------ *)
(* tea_scraper: names                                                  *)
(* ------------------------------------------------------------------ *)
file_patterns(prefix, level, var, year) ==
    {prefix \o var \o "_" \o ToString(year) \o ".csv",
     prefix \o var \o "_" \o ToString(year) \o ".dat",
     level \o var \o "_" \o ToString(year) \o ".dat",
     level \o var \o "_" \o ToString(year) \o ".csv"}

(* Mutant: only the two prefix-based names are looked for. *)
AlreadyExists_PrefixOnly(dir, prefix, level, var, year) ==
    \E ext \in {".csv", ".dat"} :
        prefix \o var \o "_" \o ToString(year) \o ext \in dir

AlreadyExists(dir, prefix, level, var, year) ==
    \E file \in file_patterns(prefix, level, var, year) : file \in dir

(* Mutant: the file name does not carry the year. *)
DistrictTypeFile_NoYear(year) == "district_type.csv"

DistrictTypeFile(year) == "district_type" \o ToString(year) \o ".csv"

(* The name the site gives the file it pushes for a variable. *)
DownloadName(level, var, year) ==
    (IF var = "REF" THEN level ELSE file_prefix(level)) \o var \o EraExt(year)

(* The canonical name of a variable's file. *)
CanonicalName(level, var, year) ==
    (IF var = "REF" THEN level ELSE file_prefix(level))
        \o var \o "_" \o ToString(year) \o EraExt(year)

(* ------------------------------------------------------------------ *)
(* State                                                               *)
(* ------------------------------------------------------------------ *)
VARIABLES
    req,          \* the request: [dirOK, level, vars, dist_type]
    run,          \* which call of tea_scraper this is (1 = first)
    pc,           \* position of the running function
    exc,          \* the exception that left tea_scraper, or "none"
    yi,           \* index of the current year in Years
    vi,           \* index of the current variable in req.vars
    unavailable,  \* tea_scraper's list `unavailable`
    dirs,         \* the years whose raw_data{year} directory exists
    fs,           \* year -> the names in raw_data{year}
    fs0,          \* fs as it was when the current call began
    open,         \* the years whose browser session is open
    pending,      \* variables whose download was triggered and has not arrived
    w,            \* wait_for_downloads: [vars, year, timeout, elapsed, check, ret]
    todo,         \* the part of available_vars the rename loop has not reached
    ren,          \* the file_renamer call just made: [var, year, before, ops]
    events,       \* the current year's interactions with the page, <<kind, year, var>>
    calls,        \* the current year's helper calls, <<function, year, var>>
    out,          \* the current year's st.write messages, <<kind, year, var>>
    outcome       \* year -> how its processing ended in this call, "" before

vars == <<req, run, pc, exc, yi, vi, unavailable, dirs, fs, fs0, open, pending,
          w, todo, ren, events, calls, out, outcome>>

NoWatch == [vars |-> {}, year |-> 0, timeout |-> 0, elapsed |-> 0,
            check |-> 1, ret |-> "none"]
NoRename == [var |-> "", year |-> 0, before |-> {}, ops |-> <<>>]

(* The directory a request may find for a year: absent, or holding the    *)
(* canonical file of every variable (what a complete earlier call left).  *)
(* A path that is not a directory holds no year directory at all.         *)
InitDirs(r, y) ==
    IF r.dirOK /\ r.level \in valid_levels
    THEN {{}, {CanonicalName(r.level, v, y) : v \in Range(r.vars)}}
    ELSE {{}}

Requests ==
    [dirOK : BOOLEAN, level : valid_levels \cup {"X"}, vars : VarLists,
     dist_type : BOOLEAN]

Init ==
    /\ req \in Requests
    /\ fs \in {f \in [YearSet -> SUBSET UNION {UNION InitDirs(req, y) : y \in YearSet}] :
                  \A y \in YearSet : f[y] \in InitDirs(req, y)}
    /\ fs0 = fs
    /\ dirs = {y \in YearSet : fs[y] # {}}
    /\ run = 1
    /\ pc = "start"
    /\ exc = "none"
    /\ yi = 1
    /\ vi = 1
    /\ unavailable = {}
    /\ open = {}
    /\ pending = {}
    /\ w = NoWatch
    /\ todo = {}
    /\ ren = NoRename
    /\ events = {}
    /\ calls = {}
    /\ out = <<>>
    /\ outcome = [y \in YearSet |-> ""]

year == Years[yi]
level == req.level
prefix == file_prefix(req.level)

(* Mutant: driver.quit() is forgotten. *)
QuitDriver_Leak(sessions, y) == sessions

(* driver.quit() of the session of year y. *)
QuitDriver(sessions, y) == sessions \ {y}

(* An exception leaves tea_scraper. *)
Raise(e) ==
    /\ pc' = "raised"
    /\ exc' = e

(* ------------------------------------------------------------------ *)
(* tea_scraper: validation, lines 209-232                              *)
(* ------------------------------------------------------------------ *)
CheckDirectory_NoReturn ==
    /\ pc = "start"
    /\ pc' = "check_level"
    /\ UNCHANGED <<outcome, req, run, exc, yi, vi, unavailable, dirs, fs, fs0, open,
                   pending, w, todo, ren, events, calls, out>>

CheckDirectory ==
    /\ pc = "start"
    /\ pc' = IF req.dirOK THEN "check_level" ELSE "returned"
    /\ UNCHANGED <<outcome, req, run, exc, yi, vi, unavailable, dirs, fs, fs0, open,
                   pending, w, todo, ren, events, calls, out>>

CheckLevel ==
    /\ pc = "check_level"
    /\ IF level \in valid_levels
       THEN pc' = "year" /\ exc' = exc
       ELSE Raise("ValueError")
    /\ UNCHANGED <<outcome, req, run, yi, vi, unavailable, dirs, fs, fs0, open,
                   pending, w, todo, ren, events, calls, out>>

(* ------------------------------------------------------------------ *)
(* tea_scraper: one year, lines 235-280                                *)
(* ------------------------------------------------------------------ *)
(* os.makedirs, then webdriver.Chrome(): the session opens, or Chrome     *)
(* raises inside the try, whose except clause names WebDriverException,   *)
(* a name the module never imports: looking it up raises NameError.       *)
OpenYear ==
    /\ pc = "year"
    /\ yi <= Len(Years)
    /\ dirs' = dirs \cup {year}
    /\ \E started \in BOOLEAN :
          IF started
          THEN /\ open' = open \cup {year}
               /\ pc' = "get"
               /\ exc' = exc
          ELSE /\ open' = open
               /\ Raise("NameError")
    /\ events' = {}
    /\ calls' = {}
    /\ out' = <<>>
    /\ UNCHANGED <<outcome, req, run, yi, vi, unavailable, fs, fs0, pending, w,
                   todo, ren>>

(* driver.get(url) and the not-found test of the page source. *)
LoadPage ==
    /\ pc = "get"
    /\ events' = events \cup {<<"navigate", year, "">>}
    /\ \E page \in {"ok", "notfound", "error"} :
          CASE page = "ok" ->
                 /\ pc' = "level"
                 /\ UNCHANGED <<exc, yi, open, out, outcome>>
            [] page = "notfound" ->
                 /\ out' = Append(out, <<"year_skipped", year, "">>)
                 /\ open' = QuitDriver(open, year)
                 /\ outcome' = [outcome EXCEPT ![year] = "skipped"]
                 /\ yi' = yi + 1
                 /\ pc' = "year"
                 /\ exc' = exc
            [] page = "error" ->
                 /\ Raise("NameError")
                 /\ UNCHANGED <<yi, open, out, outcome>>
    /\ UNCHANGED <<req, run, vi, unavailable, dirs, fs, fs0, pending, w, todo,
                   ren, calls>>

(* find_element of the level radio and its click. *)
SelectLevel ==
    /\ pc = "level"
    /\ \E found \in BOOLEAN :
          IF found
          THEN /\ events' = events \cup {<<"level", year, "">>}
               /\ unavailable' = {}
               /\ vi' = 1
               /\ out' = Append(out, <<"downloading_level", year, "">>)
               /\ pc' = "var"
               /\ exc' = exc
          ELSE /\ Raise("NameError")
               /\ UNCHANGED <<events, unavailable, vi, out>>
    /\ UNCHANGED <<outcome, req, run, yi, dirs, fs, fs0, open, pending, w, todo, ren,
                   calls>>

(* ------------------------------------------------------------------ *)
(* tea_scraper: the variable loop, lines 286-316                       *)
(* ------------------------------------------------------------------ *)
var == req.vars[vi]

(* The file is there under one of the four names: no download. *)
VarAlreadyExists ==
    /\ pc = "var"
    /\ vi <= Len(req.vars)
    /\ AlreadyExists(fs[year], prefix, level, var, year)
    /\ out' = out \o <<<<"checking", year, var>>, <<"already_exists", year, var>>>>
    /\ unavailable' = unavailable \cup {var}
    /\ vi' = vi + 1
    /\ UNCHANGED <<outcome, req, run, pc, exc, yi, dirs, fs, fs0, open, pending, w,
                   todo, ren, events, calls>>

(* The variable's radio and the Continue button are found and clicked. *)
VarDownload ==
    /\ pc = "var"
    /\ vi <= Len(req.vars)
    /\ ~AlreadyExists(fs[year], prefix, level, var, year)
    /\ events' = events \cup {<<"select", year, var>>, <<"continue", year, var>>}
    /\ pending' = pending \cup {var}
    /\ out' = out \o <<<<"checking", year, var>>, <<"downloaded", year, var>>>>
    /\ vi' = vi + 1
    /\ UNCHANGED <<outcome, req, run, pc, exc, yi, unavailable, dirs, fs, fs0, open, w,
                   todo, ren, calls>>

(* NoSuchElementException: the radio is missing, or it is clicked and the *)
(* Continue button is missing.                                            *)
VarNotFound ==
    /\ pc = "var"
    /\ vi <= Len(req.vars)
    /\ ~AlreadyExists(fs[year], prefix, level, var, year)
    /\ \E radio \in BOOLEAN :
          events' = IF radio THEN events \cup {<<"select", year, var>>} ELSE events
    /\ out' = out \o <<<<"checking", year, var>>, <<"not_found", year, var>>>>
    /\ unavailable' = unavailable \cup {var}
    /\ vi' = vi + 1
    /\ UNCHANGED <<outcome, req, run, pc, exc, yi, dirs, fs, fs0, open, pending, w,
                   todo, ren, calls>>

(* ------------------------------------------------------------------ *)
(* wait_for_downloads, lines 86-112                                    *)
(* ------------------------------------------------------------------ *)
(* Mutant: the unavailable variables are not taken out. *)
available_vars_All == Range(req.vars)

available_vars == Range(req.vars) \ unavailable

(* tea_scraper calls the watcher with the default timeout, line 322. *)
CallWait ==
    /\ pc = "var"
    /\ vi > Len(req.vars)
    /\ w' = [vars |-> available_vars, year |-> year, timeout |-> DefaultTimeout,
             elapsed |-> 0, check |-> 1, ret |-> "none"]
    /\ calls' = calls \cup {<<"wait_for_downloads", year, "">>}
    /\ pc' = "wait"
    /\ UNCHANGED <<outcome, req, run, exc, yi, vi, unavailable, dirs, fs, fs0, open,
                   pending, todo, ren, events, out>>

Watching == pc \in {"wait", "w_call"} /\ w.ret = "none"

(* One pass of the while loop: list the directory, return True when every *)
(* expected name is listed, else say so once and sleep.                   *)
WatchPoll ==
    /\ Watching
    /\ LoopCond(w.elapsed, w.timeout)
    /\ IF AllDownloaded(ExpectedFiles(w.vars, w.year), fs[w.year])
       THEN /\ out' = Append(out, <<"all_completed", w.year, "">>)
            /\ w' = [w EXCEPT !.ret = "true"]
       ELSE /\ out' = IF w.check = 1
                      THEN Append(out, <<"waiting", w.year, "">>)
                      ELSE out
            /\ w' = [w EXCEPT !.check = @ + 1, !.elapsed = @ + PollInterval]
    /\ UNCHANGED <<outcome, req, run, pc, exc, yi, vi, unavailable, dirs, fs, fs0, open,
                   pending, todo, ren, events, calls>>

(* The loop condition fails: return False. *)
WatchTimeout ==
    /\ Watching
    /\ ~LoopCond(w.elapsed, w.timeout)
    /\ w' = [w EXCEPT !.ret = "false"]
    /\ UNCHANGED <<outcome, req, run, pc, exc, yi, vi, unavailable, dirs, fs, fs0, open,
                   pending, todo, ren, events, calls, out>>

(* ------------------------------------------------------------------ *)
(* tea_scraper: renaming and driver.quit(), lines 322-325              *)
(* ------------------------------------------------------------------ *)
WaitReturned ==
    /\ pc = "wait"
    /\ w.ret # "none"
    /\ todo' = IF w.ret = "true" THEN w.vars ELSE {}
    /\ w' = NoWatch
    /\ pc' = "rename"
    /\ UNCHANGED <<outcome, req, run, exc, yi, vi, unavailable, dirs, fs, fs0, open,
                   pending, ren, events, calls, out>>

(* One pass of the loop over the set available_vars, in any order. *)
RenameVar ==
    /\ pc = "rename"
    /\ \E a_var \in todo :
          LET r == file_renamer(fs[year], year, prefix, a_var, level)
          IN  /\ fs' = [fs EXCEPT ![year] = r.dir]
              /\ ren' = [var |-> a_var, year |-> year, before |-> fs[year],
                         ops |-> r.ops]
              /\ calls' = calls \cup {<<"file_renamer", year, a_var>>}
              /\ todo' = todo \ {a_var}
    /\ UNCHANGED <<outcome, req, run, pc, exc, yi, vi, unavailable, dirs, fs0, open,
                   pending, w, events, out>>

(* driver.quit(): the browser ends, and with it the downloads under way. *)
Quit ==
    /\ pc = "rename"
    /\ todo = {}
    /\ open' = QuitDriver(open, year)
    /\ pending' = {}
    /\ ren' = NoRename
    /\ pc' = "secondary"
    /\ UNCHANGED <<outcome, req, run, exc, yi, vi, unavailable, dirs, fs, fs0, w,
                   todo, events, calls, out>>

(* ------------------------------------------------------------------ *)
(* tea_scraper: district type data, lines 327-344                      *)
(* ------------------------------------------------------------------ *)
WantsDistrictType_AnyLevel == req.dist_type

WantsDistrictType == level = "D" /\ req.dist_type

SecondaryNotWanted ==
    /\ pc = "secondary"
    /\ ~WantsDistrictType
    /\ pc' = "convert"
    /\ UNCHANGED <<outcome, req, run, exc, yi, vi, unavailable, dirs, fs, fs0, open,
                   pending, w, todo, ren, events, calls, out>>

(* The file is there: `continue`, which goes to the next year. *)
SecondaryExists ==
    /\ pc = "secondary"
    /\ WantsDistrictType
    /\ DistrictTypeFile(year) \in fs[year]
    /\ out' = out \o <<<<"downloading_district_type", year, "">>,
                       <<"district_type_exists", year, "">>>>
    /\ outcome' = [outcome EXCEPT ![year] = "continued"]
    /\ yi' = yi + 1
    /\ pc' = "year"
    /\ UNCHANGED <<req, run, exc, vi, unavailable, dirs, fs, fs0, open,
                   pending, w, todo, ren, events, calls>>

(* district_type_scraper(year) returns a frame or None, or pd.read_excel  *)
(* raises something that is no RequestException.                          *)
SecondaryFetch ==
    /\ pc = "secondary"
    /\ WantsDistrictType
    /\ DistrictTypeFile(year) \notin fs[year]
    /\ calls' = calls \cup {<<"district_type_scraper", year, "">>}
    /\ \E df \in {"data", "none", "raises"} :
          CASE df = "data" ->
                 /\ fs' = [fs EXCEPT ![year] = @ \cup {DistrictTypeFile(year)}]
                 /\ out' = out \o <<<<"downloading_district_type", year, "">>,
                                    <<"district_type_downloaded", year, "">>>>
                 /\ pc' = "convert"
                 /\ UNCHANGED <<exc, yi, outcome>>
            [] df = "none" ->
                 /\ out' = out \o <<<<"downloading_district_type", year, "">>,
                                    <<"district_type_failed", year, "">>>>
                 /\ outcome' = [outcome EXCEPT ![year] = "continued"]
                 /\ yi' = yi + 1
                 /\ pc' = "year"
                 /\ UNCHANGED <<exc, fs>>
            [] df = "raises" ->
                 /\ out' = Append(out, <<"downloading_district_type", year, "">>)
                 /\ Raise("ExcelError")
                 /\ UNCHANGED <<yi, fs, outcome>>
    /\ UNCHANGED <<req, run, vi, unavailable, dirs, fs0, open, pending, w,
                   todo, ren, events>>

(* ------------------------------------------------------------------ *)
(* tea_scraper: convert_dat_to_csv(full_dir_path), line 347            *)
(* ------------------------------------------------------------------ *)
Convert ==
    /\ pc = "convert"
    /\ \E failing \in SUBSET DatFiles(fs[year]) :
          /\ fs' = [fs EXCEPT ![year] = convert_dat_to_csv(@, failing)]
          /\ out' = IF DatFiles(fs[year]) = {} THEN out
                    ELSE Append(out, <<"converted", year,
                                       DatFiles(fs[year]) \ failing>>)
    /\ calls' = calls \cup {<<"convert_dat_to_csv", year, "">>}
    /\ outcome' = [outcome EXCEPT ![year] = "converted"]
    /\ yi' = yi + 1
    /\ pc' = "year"
    /\ UNCHANGED <<req, run, exc, vi, unavailable, dirs, fs0, open, pending,
                   w, todo, ren, events>>

(* ------------------------------------------------------------------ *)
(* tea_scraper: the end of the loop over the years, line 349           *)
(* ------------------------------------------------------------------ *)
BatchEnd ==
    /\ pc = "year"
    /\ yi > Len(Years)
    /\ out' = Append(out, <<"all_data_downloaded", 0, "">>)
    /\ pc' = "done"
    /\ UNCHANGED <<outcome, req, run, exc, yi, vi, unavailable, dirs, fs, fs0, open,
                   pending, w, todo, ren, events, calls>>

(* ------------------------------------------------------------------ *)
(* The environment                                                     *)
(* ------------------------------------------------------------------ *)
(* The browser of the current year finishes a download it was asked for, *)
(* at any time between the click and driver.quit().                      *)
DownloadArrives ==
    /\ pc \in {"var", "wait", "rename"}
    /\ year \in open
    /\ \E v \in pending :
          /\ fs' = [fs EXCEPT ![year] = @ \cup {DownloadName(level, v, year)}]
          /\ pending' = pending \ {v}
    /\ UNCHANGED <<outcome, req, run, pc, exc, yi, vi, unavailable, dirs, fs0, open, w,
                   todo, ren, events, calls, out>>

(* The user runs the scraper again with the same parameters. *)
Rerun ==
    /\ pc = "done"
    /\ run < MaxRuns
    /\ run' = run + 1
    /\ pc' = "start"
    /\ yi' = 1
    /\ vi' = 1
    /\ unavailable' = {}
    /\ fs0' = fs
    /\ w' = NoWatch
    /\ todo' = {}
    /\ ren' = NoRename
    /\ events' = {}
    /\ calls' = {}
    /\ out' = <<>>
    /\ outcome' = [y \in YearSet |-> ""]
    /\ UNCHANGED <<req, exc, dirs, fs, open, pending>>

Next ==
    \/ CheckDirectory
    \/ CheckLevel
    \/ OpenYear
    \/ LoadPage
    \/ SelectLevel
    \/ VarAlreadyExists
    \/ VarDownload
    \/ VarNotFound
    \/ CallWait
    \/ WatchPoll
    \/ WatchTimeout
    \/ WaitReturned
    \/ RenameVar
    \/ Quit
    \/ SecondaryNotWanted
    \/ SecondaryExists
    \/ SecondaryFetch
    \/ Convert
    \/ BatchEnd
    \/ DownloadArrives
    \/ Rerun

Spec == Init /\ [][Next]_vars

(* ------------------------------------------------------------------ *)
(* wait_for_downloads called on its own                                *)
(* ------------------------------------------------------------------ *)
WatchVars == {"REF", "GRAD"}

(* The names that may be in the watched directory or land in it: the      *)
(* names the watcher expects, and a download still under way.             *)
WatchNames(y) ==
    ExpectedFiles(WatchVars, y) \cup {"DISTGRAD" \o EraExt(y) \o ".crdownload"}

AnyRequest == [dirOK |-> TRUE, level |-> "D", vars |-> <<"REF", "GRAD">>,
               dist_type |-> TRUE]

WatchInit ==
    /\ req = AnyRequest
    /\ w \in [vars : SUBSET WatchVars, year : YearSet, timeout : 0..MaxTimeout,
              elapsed : {0}, check : {1}, ret : {"none"}]
    /\ \E d \in SUBSET WatchNames(w.year) :
          fs = [y \in YearSet |-> IF y = w.year THEN d ELSE {}]
    /\ fs0 = fs
    /\ dirs = {w.year}
    /\ run = 1
    /\ pc = "w_call"
    /\ exc = "none"
    /\ yi = 1
    /\ vi = 1
    /\ unavailable = {}
    /\ open = {}
    /\ pending = {}
    /\ todo = {}
    /\ ren = NoRename
    /\ events = {}
    /\ calls = {}
    /\ out = <<>>
    /\ outcome = [y \in YearSet |-> ""]

(* A file lands in the watched directory while the watcher runs. *)
FileAppears ==
    /\ pc = "w_call"
    /\ w.ret = "none"
    /\ \E f \in WatchNames(w.year) \ fs[w.year] :
          fs' = [fs EXCEPT ![w.year] = @ \cup {f}]
    /\ UNCHANGED <<outcome, req, run, pc, exc, yi, vi, unavailable, dirs, fs0,
                   open, pending, w, todo, ren, events, calls, out>>

WatchNext ==
    \/ WatchPoll
    \/ WatchTimeout
    \/ FileAppears

SpecWatch == WatchInit /\ [][WatchNext]_vars

(* ------------------------------------------------------------------ *)
(* file_renamer called on its own                                      *)
(* ------------------------------------------------------------------ *)
RenameVars == {"REF", "GRAD"}

(* The names that may be in the directory: the four pre-rename names of   *)
(* the variable, the two names a rename gives, and a file of no interest. *)
RenameNames(lv, v, y) ==
    UNION {Range(OldPatterns(file_prefix(lv), v, lv, ext))
              \cup {NewName(y, file_prefix(lv), v, lv, ext)} :
           ext \in {".csv", ".dat"}}
      \cup {"district_type" \o ToString(y) \o ".csv"}

RenameInit ==
    /\ req \in [dirOK : {TRUE}, level : valid_levels, vars : {<<"REF", "GRAD">>},
                dist_type : {TRUE}]
    /\ ren \in [var : RenameVars, year : YearSet, before : {{}}, ops : {<<>>}]
    /\ \E d \in SUBSET RenameNames(req.level, ren.var, ren.year) :
          fs = [y \in YearSet |-> IF y = ren.year THEN d ELSE {}]
    /\ fs0 = fs
    /\ dirs = {ren.year}
    /\ run = 1
    /\ pc = "r_call"
    /\ exc = "none"
    /\ yi = 1
    /\ vi = 1
    /\ unavailable = {}
    /\ open = {}
    /\ pending = {}
    /\ w = NoWatch
    /\ todo = {}
    /\ events = {}
    /\ calls = {}
    /\ out = <<>>
    /\ outcome = [y \in YearSet |-> ""]

RenameCall ==
    /\ pc = "r_call"
    /\ LET r == file_renamer(fs[ren.year], ren.year, file_prefix(req.level),
                             ren.var, req.level)
       IN  /\ fs' = [fs EXCEPT ![ren.year] = r.dir]
           /\ ren' = [ren EXCEPT !.before = fs[ren.year], !.ops = r.ops]
    /\ pc' = "r_done"
    /\ UNCHANGED <<outcome, req, run, exc, yi, vi, unavailable, dirs, fs0, open,
                   pending, w, todo, events, calls, out>>

RenameNext == RenameCall

SpecRename == RenameInit /\ [][RenameNext]_vars

(* ------------------------------------------------------------------ *)
(* Properties                                                          *)
(* ------------------------------------------------------------------ *)
ValidRequest == req.dirOK /\ req.level \in valid_levels

(* The call began over a directory holding every canonical file. *)
CanonicalAtStart ==
    /\ ValidRequest
    /\ \A y \in YearSet : \A v \in Range(req.vars) :
          CanonicalName(req.level, v, y) \in fs0[y]

InTeaScraper ==
    pc \in {"start", "check_level", "year", "get", "level", "var", "wait",
            "rename", "secondary", "convert", "done", "returned", "raised"}

(* C1 as stated: over a directory that holds the canonical file of every *)
(* (year, variable), a second call with the same parameters makes no      *)
(* interaction with the page at all: no navigation, no radio selection,   *)
(* no click.                                                              *)
C1_NoPageInteraction ==
    (InTeaScraper /\ run >= 2 /\ CanonicalAtStart) => events = {}

(* C1 as amended: over such a directory a call selects no variable,       *)
(* clicks no Continue, triggers no download, watches an empty set and     *)
(* renames nothing; every variable the loop has reached is reported as    *)
(* already existing, and the canonical files stay.  The page load and the *)
(* level click of each year are the only interactions.                    *)
C1_Idempotent ==
    (InTeaScraper /\ CanonicalAtStart) =>
        /\ \A e \in events : e[1] \in {"navigate", "level"}
        /\ pending = {}
        /\ w.vars = {}
        /\ todo = {}
        /\ \A c \in calls : c[1] # "file_renamer"
        /\ \A k \in 1..Len(out) : out[k][1] \notin {"downloaded", "not_found", "waiting"}
        /\ (pc \in {"var", "wait", "rename", "secondary", "convert"} =>
               \A k \in 1..(vi - 1) :
                   \E m \in 1..Len(out) :
                       out[m] = <<"already_exists", year, req.vars[k]>>)
        /\ \A y \in YearSet : \A v \in Range(req.vars) :
               CanonicalName(req.level, v, y) \in fs[y]

C1_Witness ==
    /\ run = 2
    /\ CanonicalAtStart
    /\ pc = "done"
    /\ req.vars = <<"REF", "GRAD">>
    /\ \A y \in YearSet : outcome[y] \in {"converted", "continued"}
    /\ \E m \in 1..Len(out) : out[m] = <<"already_exists", 2021, "REF">>
    /\ \E m \in 1..Len(out) : out[m] = <<"already_exists", 2021, "GRAD">>

(* C2: whenever tea_scraper is between two years, or has ended in any     *)
(* way, no browser session is open.                                       *)
C2_SessionReleased ==
    pc \in {"year", "done", "raised"} => open = {}

(* C3: a year whose page reports not-found content is skipped as a whole: *)
(* its session is closed, nothing was selected or clicked on its page, no *)
(* helper was called for it, its directory holds what it held before, and *)
(* the loop has gone on; a call that reaches its end has brought every    *)
(* year of the batch to an outcome.                                       *)
C3_SkipIsolated ==
    /\ \A i \in 1..Len(Years) :
          outcome[Years[i]] = "skipped" =>
              /\ yi > i
              /\ Years[i] \notin open
              /\ fs[Years[i]] = fs0[Years[i]]
              /\ (pc = "year" /\ yi = i + 1) =>
                     /\ events = {<<"navigate", Years[i], "">>}
                     /\ calls = {}
                     /\ out = <<<<"year_skipped", Years[i], "">>>>
                     /\ pending = {}
                     /\ open = {}
    /\ pc = "done" => \A y \in YearSet : outcome[y] # ""

C3_Witness ==
    /\ pc = "done"
    /\ run = 1
    /\ outcome[2020] = "skipped"
    /\ outcome[2021] = "converted"
    /\ fs0[2021] = {}
    /\ "DISTGRAD_2021.csv" \in fs[2021]

(* C4: for a request with an existing directory and a recognised level,   *)
(* no exception leaves tea_scraper.                                       *)
C4_NoExceptionEscapes ==
    ValidRequest => (pc # "raised" /\ exc = "none")

(* C5: when a year that got past level selection is left, the conversion  *)
(* was called for it and every .dat file of its directory has a .csv      *)
(* sibling.                                                               *)
C5_ConvertAlways ==
    \A i \in 1..Len(Years) :
        (pc = "year" /\ yi = i + 1 /\ <<"level", Years[i], "">> \in events) =>
            /\ <<"convert_dat_to_csv", Years[i], "">> \in calls
            /\ \A f \in DatFiles(fs[Years[i]]) : CsvPath(f) \in fs[Years[i]]

(* C6: with a positive timeout, a poll that finds every expected name     *)
(* returns true at once; true is returned only by such a poll; false is   *)
(* returned with timeout <= elapsed <= timeout + 5, and the call never    *)
(* runs beyond that.                                                      *)
C6_WatcherCorrect ==
    [][(pc = "w_call" /\ w.timeout > 0 /\ w' # w) =>
          LET present == \A v \in w.vars : ExpectedFile(v, w.year) \in fs[w.year]
          IN  /\ (present /\ w.elapsed < w.timeout) =>
                    (w'.ret = "true" /\ w'.elapsed = w.elapsed)
              /\ w'.ret = "true" => (present /\ w.elapsed < w.timeout)
              /\ w'.ret = "false" =>
                    /\ w'.elapsed >= w.timeout
                    /\ w'.elapsed <= w.timeout + PollInterval
              /\ w'.elapsed <= w.timeout + PollInterval]_vars

C6_Witness ==
    /\ pc = "w_call"
    /\ w.ret = "false"
    /\ w.timeout = 7
    /\ w.elapsed = 10
    /\ w.vars = {"REF", "GRAD"}
    /\ ExpectedFile("GRAD", w.year) \in fs[w.year]
    /\ ExpectedFile("REF", w.year) \notin fs[w.year]

(* C7: called with no variables, the watcher returns true, with no time   *)
(* elapsed and no waiting message, whatever the timeout.                  *)
C7_EmptyWatchSet ==
    (pc = "w_call" /\ w.vars = {} /\ w.ret # "none") =>
        /\ w.ret = "true"
        /\ w.elapsed = 0
        /\ \A k \in 1..Len(out) : out[k][1] # "waiting"

(* C8: one call of file_renamer makes at most one rename, of the first    *)
(* candidate that exists, and changes nothing else in the directory.      *)
C8_FirstMatchWins ==
    pc = "r_done" =>
        /\ Len(ren.ops) <= 1
        /\ Len(ren.ops) = 0 => fs[ren.year] = ren.before
        /\ Len(ren.ops) = 1 =>
              fs[ren.year] \ {ren.ops[1][2]} = ren.before \ {ren.ops[1][1], ren.ops[1][2]}

(* C9: in tea_scraper, a poll of the watcher that finds the file of every *)
(* watched variable in the directory under its download name of the       *)
(* requested level returns true.                                          *)
C9_WatcherUsesLevel ==
    [][(/\ pc = "wait"
        /\ w.ret = "none"
        /\ w.elapsed < w.timeout
        /\ w' # w
        /\ \A v \in w.vars : DownloadName(req.level, v, w.year) \in fs[w.year])
       => w'.ret = "true"]_vars

(* C10: every rename a call of file_renamer makes takes one of the two    *)
(* pre-rename names of an extension to the name built from the level      *)
(* token for REF and from the prefix token otherwise, with _{year} put    *)
(* before the same extension; the old name is gone afterwards.            *)
C10_NamingDeterministic ==
    pc = "r_done" =>
        \A k \in 1..Len(ren.ops) :
            LET old == ren.ops[k][1]
                new == ren.ops[k][2]
                pre == file_prefix(req.level)
                tok == IF ren.var = "REF" THEN req.level ELSE pre
            IN  \E ext \in {".csv", ".dat"} :
                    /\ old \in {pre \o ren.var \o ext, req.level \o ren.var \o ext}
                    /\ old \in ren.before
                    /\ new = tok \o ren.var \o "_" \o ToString(ren.year) \o ext
                    /\ new \in fs[ren.year]
                    /\ old \notin fs[ren.year]

C10_Witness ==
    /\ pc = "r_done"
    /\ req.level = "D"
    /\ ren.var = "GRAD"
    /\ ren.year = 2021
    /\ ren.ops = <<<<"DGRAD.csv", "DISTGRAD_2021.csv">>>>

(* C11: the secondary fetch is scoped to the District level. When level   *)
(* is not 'D', whatever dist_type is, or when level is 'D' and dist_type  *)
(* is false, district_type_scraper is never invoked, no message of the    *)
(* secondary step is written and no district_type{year}.csv is written    *)
(* in any year directory.                                                 *)
C11_SecondaryScoped ==
    (InTeaScraper /\ ValidRequest /\ ~(req.level = "D" /\ req.dist_type)) =>
        /\ \A c \in calls : c[1] # "district_type_scraper"
        /\ \A k \in 1..Len(out) :
              out[k][1] \notin {"downloading_district_type",
                                "district_type_exists",
                                "district_type_downloaded",
                                "district_type_failed"}
        /\ \A y \in YearSet :
              ("district_type" \o ToString(y) \o ".csv") \notin fs[y]

(* A call at the Campus level with dist_type set ran to the end: both    *)
(* years were converted and the final message was written.                *)
C11_Witness ==
    /\ pc = "done"
    /\ req.level = "C" /\ req.dist_type /\ req.dirOK
    /\ \A y \in YearSet : outcome[y] = "converted"
    /\ <<"convert_dat_to_csv", Years[Len(Years)], "">> \in calls

(* C12: an invalid request fails fast. When directory_path is not a       *)
(* directory, or level is not one of the four keys, tea_scraper ends      *)
(* before any year is processed: no raw_data directory is created, no     *)
(* session is opened, no page is visited, nothing is renamed or           *)
(* converted, and 'All Data Downloaded!' is never written.                *)
C12_InvalidFailsFast ==
    (InTeaScraper /\ ~(req.dirOK /\ req.level \in {"C", "D", "R", "S"})) =>
        /\ pc \in {"start", "check_level", "returned", "raised"}
        /\ dirs = {} /\ open = {} /\ pending = {}
        /\ events = {} /\ calls = {} /\ out = <<>>
        /\ fs = fs0 /\ \A y \in YearSet : fs[y] = {} /\ outcome[y] = ""
        /\ yi = 1

(* An existing directory with an unknown level key: the call has ended    *)
(* with ValueError.                                                       *)
C12_Witness ==
    /\ pc = "raised" /\ exc = "ValueError"
    /\ req.dirOK /\ req.level = "X"

(* C13: the era boundary of wait_for_downloads. For every watched         *)
(* variable the expected name ends in .dat when year < 2021 (2020) and    *)
(* in .csv when year >= 2021 (2021), and never in the other extension;    *)
(* a watcher that returned true found a file of the year's era for every  *)
(* watched variable.                                                      *)
C13_EraBoundary ==
    pc = "w_call" =>
        \A v \in w.vars :
            LET f == ExpectedFile(v, w.year)
                own == IF w.year < 2021 THEN ".dat" ELSE ".csv"
                other == IF w.year < 2021 THEN ".csv" ELSE ".dat"
            IN  /\ EndsWith(f, own)
                /\ ~EndsWith(f, other)
                /\ w.ret = "true" =>
                      \E g \in fs[w.year] :
                          /\ g = f
                          /\ SubSeq(g, Len(g) - 3, Len(g)) = own

(* The watcher of year 2021 returned true for both variables after it     *)
(* had waited: the two .csv names are in the directory.                   *)
C13_Witness ==
    /\ pc = "w_call"
    /\ w.ret = "true"
    /\ w.year = 2021
    /\ w.elapsed > 0
    /\ w.vars = {"REF", "GRAD"}
    /\ {"DREF.csv", "DISTGRAD.csv"} \subseteq fs[2021]

(* C14: a missing level control is year-scoped. When the page of a year   *)
(* fails to load with a browser error, or loads without the level radio,  *)
(* the year is skipped and tea_scraper goes on with the next year: every  *)
(* step that leaves the page load or the level selection without          *)
(* entering the variable loop moves to the next year of the batch, with   *)
(* the year's session closed.                                             *)
C14_LevelMissingSkipsYear ==
    [][(pc \in {"get", "level"} /\ pc' \notin {"get", "level", "var"}) =>
          /\ pc' = "year"
          /\ yi' = yi + 1
          /\ open' = {}
          /\ outcome'[Years[yi]] = "skipped"]_vars

(* C15: the watch set of a year. A variable found under one of its four   *)
(* names {prefix|level}{var}_{year}.{csv|dat} is reported present and is  *)
(* never selected or clicked; a variable whose control is missing is      *)
(* tried once, marked unavailable, and the loop goes on; the set handed   *)
(* to wait_for_downloads is exactly the requested variables that are      *)
(* neither present nor unavailable, which are exactly the variables whose *)
(* selection control and Continue control were both clicked.              *)
C15_WatchSet ==
    pc \in {"var", "wait"} =>
        LET said(kind, v) == \E k \in 1..Len(out) : out[k] = <<kind, year, v>>
            tries(v) ==
                Cardinality({k \in 1..Len(out) : out[k] = <<"checking", year, v>>})
            selected(v) == <<"select", year, v>> \in events
            continued(v) == <<"continue", year, v>> \in events
            names(v) ==
                {p \o v \o "_" \o ToString(year) \o e :
                    p \in {prefix, level}, e \in {".csv", ".dat"}}
        IN  /\ pc = "var" => \A v \in Range(req.vars) :
                  /\ tries(v) <= 1
                  /\ vi > Len(req.vars) => tries(v) = 1
                  /\ tries(v) = 1 =>
                        (said("already_exists", v) <=>
                            names(v) \cap fs[year] # {})
                  /\ said("already_exists", v) =>
                        ~selected(v) /\ ~continued(v)
                  /\ said("not_found", v) =>
                        v \in unavailable /\ ~continued(v)
                  /\ continued(v) => selected(v)
            /\ pc = "wait" =>
                  /\ w.vars = {v \in Range(req.vars) :
                                  /\ ~said("already_exists", v)
                                  /\ ~said("not_found", v)}
                  /\ w.vars = {v \in Range(req.vars) :
                                  selected(v) /\ continued(v)}

(* REF was selected but its Continue control was missing, GRAD was        *)
(* selected and continued: the watcher is called with GRAD alone.         *)
C15_Witness ==
    /\ pc = "wait"
    /\ req.vars = <<"REF", "GRAD">>
    /\ <<"select", year, "REF">> \in events
    /\ <<"continue", year, "REF">> \notin events
    /\ <<"continue", year, "GRAD">> \in events
    /\ unavailable = {"REF"}
    /\ w.vars = {"GRAD"}

(* C16: the watcher gates only the renaming. file_renamer is called for a *)
(* year only after the watcher returned true for it; when the watcher     *)
(* returned false nothing of the year is renamed, the year goes on to its *)
(* secondary fetch and conversion, and the timeout is reported: a message *)
(* follows the one-time waiting message of the watcher.                   *)
C16_TimeoutReported ==
    /\ \A c \in calls :
          c[1] = "file_renamer" =>
              \E k \in 1..Len(out) : out[k] = <<"all_completed", c[2], "">>
    /\ (/\ pc \in {"rename", "secondary", "convert"}
        /\ <<"wait_for_downloads", year, "">> \in calls
        /\ \A k \in 1..Len(out) : out[k] # <<"all_completed", year, "">>) =>
            /\ \A c \in calls : c[1] # "file_renamer"
            /\ todo = {}
            /\ \E k \in 1..Len(out) :
                  /\ out[k] = <<"waiting", year, "">>
                  /\ k < Len(out)

(* C17: the secondary fetch at the District level. In a year of a call    *)
(* with level 'D' and dist_type that got past level selection,            *)
(* district_type_scraper is invoked if and only if                        *)
(* district_type{year}.csv is not in the year's directory; when it        *)
(* returns data the file is there afterwards; when it returns nothing no  *)
(* file is written, the failure message is written and the batch goes on  *)
(* with the next year.                                                    *)
C17_SecondaryFetch ==
    [][(pc = "secondary" /\ req.level = "D" /\ req.dist_type /\ pc' # pc) =>
          LET y == Years[yi]
              f == "district_type" \o ToString(y) \o ".csv"
              call == <<"district_type_scraper", y, "">>
              last == out'[Len(out')]
          IN  /\ call \notin calls
              /\ call \in calls' <=> f \notin fs[y]
              /\ call \notin calls' => (fs' = fs /\ pc' = "year")
              /\ (call \in calls' /\ pc' \in {"convert", "year"}) =>
                    last \in {<<"district_type_downloaded", y, "">>,
                              <<"district_type_failed", y, "">>}
              /\ last = <<"district_type_downloaded", y, "">> =>
                    (f \in fs'[y] /\ pc' = "convert")
              /\ last = <<"district_type_failed", y, "">> =>
                    /\ f \notin fs'[y]
                    /\ fs' = fs
                    /\ pc' = "year"
                    /\ yi' = yi + 1]_vars

(* The second call at the District level finds the file the first call    *)
(* wrote for 2020: the scraper is not invoked and the batch is at 2021.   *)
C17_Witness ==
    /\ run = 2
    /\ req.level = "D" /\ req.dist_type
    /\ pc = "year" /\ yi = 2
    /\ "district_type2020.csv" \in fs[2020]
    /\ Len(out) > 0
    /\ out[Len(out)] = <<"district_type_exists", 2020, "">>
    /\ <<"district_type_scraper", 2020, "">> \notin calls

(* C18: the session invariant of tea_scraper. At most one browser session *)
(* is open in every state; the session of a year is opened when no other  *)
(* session is open; it is open during the page load, the level selection, *)
(* the whole variable loop, the whole watcher wait and the renaming; it   *)
(* is closed before the secondary fetch and the conversion of the year    *)
(* begin.                                                                 *)
C18_OneSession ==
    /\ Cardinality(open) <= 1
    /\ pc \in {"start", "check_level", "year", "done", "returned"} => open = {}
    /\ pc \in {"get", "level", "var", "wait", "rename"} => open = {Years[yi]}
    /\ pc \in {"secondary", "convert"} => open = {}
    /\ (pc = "wait" /\ w.ret = "none") => w.year \in open
    /\ pending # {} => open = {Years[yi]}

(* The watcher of the second year is half way through its wait, the       *)
(* session of 2021 is the only one open, and the first year was           *)
(* converted after its own session was closed.                            *)
C18_Witness ==
    /\ pc = "wait"
    /\ yi = 2
    /\ w.ret = "none"
    /\ w.elapsed = 100
    /\ open = {2021}
    /\ outcome[2020] = "converted"

(* C19: the watcher counts only the downloads of the current call. When   *)
(* wait_for_downloads has returned true for a year, the download that     *)
(* this call triggered for every watched variable has landed; and no      *)
(* variable is renamed while the download triggered for it is still       *)
(* under way. A file left un-renamed by an earlier call cannot stand in   *)
(* for the new download.                                                  *)
C19_OnlyCurrentDownloads ==
    /\ (pc = "wait" /\ w.ret = "true") => w.vars \cap pending = {}
    /\ pc = "rename" =>
          \A c \in calls : c[1] = "file_renamer" => c[3] \notin pending

====
